---- MODULE Spec2Model ----
(***************************************************************************)
(* Model of python_models/enhanced_lstm.py: the windowing/labelling        *)
(* transform (prepare_sequences), the class weight vector and the recall   *)
(* gated epoch loop of train_model, predict_magnitude, and the command     *)
(* dispatch under __main__.                                                *)
(*                                                                         *)
(* Numbers.  Magnitudes are integers in tenths (4.0 is 40).  Scaled        *)
(* magnitudes and probabilities are integers in thousandths, rounded down. *)
(* Recalls are integers in hundredths (0.95 is 95).  The tensor numerics   *)
(* of the network (the LSTM, the optimiser, the metrics) are not modelled: *)
(* the logits of a forward pass and the validation recall of an epoch are  *)
(* nondeterministic inputs of the actions that use them.                   *)
(***************************************************************************)
EXTENDS Integers, Sequences, FiniteSets

VARIABLES
    \* ---- the command surface and the trainer (specification Spec)
    pc,            \* "idle": no invocation running; "loop": inside train_model's while
    argv,          \* the command line of the current or last invocation
    out,           \* how the last invocation ended: nothing yet, a printed result, a fault
    checkpoint,    \* the file best_earthquake_model.pth
    loaded,        \* what load_earthquake_data gave the current or last train
    epoch,         \* train_model's epoch
    recall,        \* train_model's recall
    best_recall,   \* train_model's best_recall
    runMax,        \* history: the highest recall of the epochs run so far, -1 before the first
    runBestEpoch,  \* history: the first epoch that reached runMax, 0 before the first
    firstHit,      \* history: the first epoch whose recall reached the target, 0 if none yet
    \* ---- prepare_sequences alone (specification SpecPrep)
    df,            \* the readings handed to prepare_sequences
    seq_length,    \* its seq_length argument
    prep,          \* what the call did
    \* ---- the class weights alone (specification SpecWeights)
    y_train,       \* the training labels
    class_weights  \* what lines 120-124 made of them

vars == <<pc, argv, out, checkpoint, loaded, epoch, recall, best_recall,
          runMax, runBestEpoch, firstHit, df, seq_length, prep, y_train, class_weights>>

trainerVars == <<pc, argv, out, checkpoint, loaded, epoch, recall, best_recall,
                 runMax, runBestEpoch, firstHit>>
prepVars == <<df, seq_length, prep>>
weightVars == <<y_train, class_weights>>

(***************************************************************************)
(* Bounds of the model.                                                    *)
(***************************************************************************)
MaxN == 3            \* readings handed to prepare_sequences in SpecPrep
MaxL == 3            \* window lengths tried in SpecPrep
MaxCount == 4        \* occurrences of one label in y_train in SpecWeights
MaxReadings == 17    \* readings the data source returns in Spec
MaxWindow == 11      \* the longest window given to predict

\* Magnitudes tried in SpecPrep, in tenths: the bin edges and values around them.
MagSet == {1, 39, 40, 41, 50, 60, 70, 85}

Max2(a, b) == IF a >= b THEN a ELSE b

RECURSIVE SeqMin(_)
SeqMin(s) == IF Len(s) = 1 THEN s[1]
             ELSE LET m == SeqMin(Tail(s)) IN IF s[1] <= m THEN s[1] ELSE m

RECURSIVE SeqMax(_)
SeqMax(s) == IF Len(s) = 1 THEN s[1]
             ELSE LET m == SeqMax(Tail(s)) IN IF s[1] >= m THEN s[1] ELSE m

(***************************************************************************)
(* prepare_sequences                                                       *)
(***************************************************************************)
\* seq_length=10, the default every caller in the file uses.
SeqLength == 10

\* np.inf, the last bin edge: above every magnitude of the model.
Infinity == 1000000

\* bins = [0, 4, 5, 6, 7, np.inf], in tenths.
bins == <<0, 40, 50, 60, 70, Infinity>>

\* labels = [0, 1, 2, 3, 4]
labels == <<0, 1, 2, 3, 4>>

\* One interval of pd.cut(bins=bins, include_lowest=True). right is left at its
\* default True: interval i is (bins[i], bins[i+1]], closed on the right, and
\* include_lowest closes the first one on the left as well.
InInterval(m, i) ==
    /\ \/ bins[i] < m
       \/ i = 1 /\ m = bins[1]
    /\ m <= bins[i + 1]

\* pd.cut(...).cat.codes of one magnitude: the label of its interval, -1 (the
\* code of NaN) when it lies in none.
mag_bin(m) ==
    IF \E i \in 1..Len(labels) : InInterval(m, i)
    THEN labels[CHOOSE i \in 1..Len(labels) : InInterval(m, i)]
    ELSE -1

\* df.sort_values('time'): insertion of one row into a time-sorted frame.
RECURSIVE InsertByTime(_, _)
InsertByTime(row, s) ==
    IF s = <<>> THEN <<row>>
    ELSE IF row.time < s[1].time THEN <<row>> \o s
    ELSE <<s[1]>> \o InsertByTime(row, Tail(s))

RECURSIVE sort_values(_)
sort_values(d) ==
    IF d = <<>> THEN <<>>
    ELSE InsertByTime(d[1], sort_values(Tail(d)))

\* MinMaxScaler().fit_transform of a non-empty column, in thousandths:
\* (x - min) / (max - min), a zero range being replaced by 1.
fit_transform(col) ==
    LET lo == SeqMin(col)
        hi == SeqMax(col)
        range == IF hi = lo THEN 1 ELSE hi - lo
    IN  [i \in 1..Len(col) |-> ((col[i] - lo) * 1000) \div range]

\* len(range(len(mag_scaled) - seq_length))
WindowCount(n, L) == Max2(n - L, 0)

\* prepare_sequences(df, seq_length).  MinMaxScaler.fit_transform refuses an
\* array with no sample (ValueError), which leaves the function by line 80.
\* Positions are 1-based here: window i holds positions i..i+L-1 and its label
\* is that of position i+L (0-based in the code: i..i+L-1 and i+L).
prepare_sequences(d, L) ==
    LET df_sorted == sort_values(d)
        n == Len(df_sorted)
        mags == [i \in 1..n |-> df_sorted[i].magnitude]
    IN  IF n = 0
        THEN [raised |-> "ValueError"]
        ELSE LET mag_scaled == fit_transform(mags)
                 codes == [i \in 1..n |-> mag_bin(mags[i])]
                 k == WindowCount(n, L)
             IN  [raised |-> "",
                  sorted |-> df_sorted,
                  codes |-> codes,
                  X |-> [i \in 1..k |-> SubSeq(mag_scaled, i, i + L - 1)],
                  y |-> [i \in 1..k |-> codes[i + L]]]

(***************************************************************************)
(* The class weight vector, lines 119-124 of train_model                   *)
(***************************************************************************)
\* The severity amplification np.array([1.0, 1.2, 1.5, 2.0, 3.0]), in tenths.
Amplification == <<10, 12, 15, 20, 30>>

\* 1 / 1e-6: the count c plus 1e-6 is (c * EpsInv + 1) / EpsInv.
EpsInv == 1000000

\* np.bincount(y) of a non-empty label array: one count per label 0..max(y).
\* Entry b + 1 of the sequence is the count of label b.
bincount(y) ==
    LET top == SeqMax(y)
    IN  [b1 \in 1..(top + 1) |-> Cardinality({i \in 1..Len(y) : y[i] = b1 - 1})]

\* Fractions are pairs <<numerator, denominator>> with a positive denominator.
FracLess(a, b) == a[1] * b[2] < b[1] * a[2]

\* class_weights / class_weights.sum(): entry i is the fraction w[i] over the sum
\* of the fractions of `whole`.  The sum is kept as the list of its terms: with
\* 1e-6 exact, its value does not fit the integers of the model checker.
Normalise(w) == [i \in 1..Len(w) |-> [part |-> w[i], whole |-> w]]

\* The weight of every class amplified by 3.0, the last factor.
AmplifyFlat(cw) == [i \in 1..5 |-> <<Amplification[5], cw[IF Len(cw) = 1 THEN 1 ELSE i]>>]

\* (1.0 / (class_counts + 1e-6)) * np.array([1.0, 1.2, 1.5, 2.0, 3.0]) of an
\* array cw of denominators c * EpsInv + 1, of length 1 (broadcast) or 5.
\* Entry i is Amplification[i] / cw[i], in units of EpsInv / 10.
Amplify(cw) == [i \in 1..5 |-> <<Amplification[i], cw[IF Len(cw) = 1 THEN 1 ELSE i]>>]

\* Lines 120-124.  class_counts has max(y_train) + 1 entries; its product with
\* the 5 amplification factors is defined for 1 entry (broadcast) or 5, and a
\* ValueError for any other length.
ClassWeights(y) ==
    LET class_counts == bincount(y)
        denominators == [i \in 1..Len(class_counts) |-> class_counts[i] * EpsInv + 1]
    IN  IF Len(class_counts) \notin {1, 5}
        THEN [raised |-> "ValueError"]
        ELSE [raised |-> "", weights |-> Normalise(Amplify(denominators))]

\* Whether normalised weight a is below normalised weight b (same divisor).
WeightLess(a, b) == a.whole = b.whole /\ FracLess(a.part, b.part)

(***************************************************************************)
(* prepare_sequences alone: SpecPrep                                       *)
(***************************************************************************)
\* The readings of a frame: row i has magnitude mags[i]; the times ascend or,
\* for an unsorted input, descend.
Frame(mags, order) ==
    [i \in 1..Len(mags) |->
        [time |-> IF order = "asc" THEN i ELSE Len(mags) + 1 - i,
         magnitude |-> mags[i]]]

Frames == UNION {{Frame(m, o) : m \in [1..n -> MagSet], o \in {"asc", "desc"}} : n \in 0..MaxN}

TrainerIdle ==
    /\ pc = "idle"
    /\ argv = <<>>
    /\ out = [kind |-> "none"]
    /\ checkpoint = [state |-> "missing"]
    /\ loaded = "unloaded"
    /\ epoch = 0 /\ recall = 0 /\ best_recall = 0
    /\ runMax = -1 /\ runBestEpoch = 0 /\ firstHit = 0

PrepIdle == df = <<>> /\ seq_length = SeqLength /\ prep = [raised |-> "pending"]

WeightsIdle == y_train = <<>> /\ class_weights = [raised |-> "pending"]

InitPrep ==
    /\ df \in Frames
    /\ seq_length \in 1..MaxL
    /\ prep = [raised |-> "pending"]
    /\ TrainerIdle
    /\ WeightsIdle

CallPrepare ==
    /\ prep.raised = "pending"
    /\ prep' = prepare_sequences(df, seq_length)
    /\ UNCHANGED <<df, seq_length, trainerVars, weightVars>>

NextPrep == CallPrepare

SpecPrep == InitPrep /\ [][NextPrep]_vars

(***************************************************************************)
(* The class weights alone: SpecWeights                                    *)
(***************************************************************************)
RECURSIVE Repeat(_, _)
Repeat(x, k) == IF k = 0 THEN <<>> ELSE <<x>> \o Repeat(x, k - 1)

\* The label array with c[b] occurrences of label b - 1 (the order of the
\* labels does not enter np.bincount).
LabelArray(c) ==
    Repeat(0, c[1]) \o Repeat(1, c[2]) \o Repeat(2, c[3]) \o Repeat(3, c[4]) \o Repeat(4, c[5])

InitWeights ==
    /\ \E c \in [1..5 -> 0..MaxCount] :
          /\ LabelArray(c) # <<>>
          /\ y_train = LabelArray(c)
    /\ class_weights = [raised |-> "pending"]
    /\ TrainerIdle
    /\ PrepIdle

CallClassWeights ==
    /\ class_weights.raised = "pending"
    /\ class_weights' = ClassWeights(y_train)
    /\ UNCHANGED <<y_train, trainerVars, prepVars>>

NextWeights == CallClassWeights

SpecWeights == InitWeights /\ [][NextWeights]_vars
(***************************************************************************)
(* predict_magnitude                                                       *)
(***************************************************************************)
\* EarthquakeLSTM(input_size=1, ...)
InputSize == 1

\* The shape of torch.tensor(sequence_data).unsqueeze(0): a list of n numbers
\* has shape (n,), a list of T rows of w numbers has shape (T, w).
InputShape(value) ==
    IF value.kind = "flat" THEN <<1, value.len>> ELSE <<1, value.len, value.width>>

\* EarthquakeLSTM.forward raises (RuntimeError) unless x is a batch of
\* sequences of input_size features: h0 and c0 are 3-dimensional, which nn.LSTM
\* accepts with a 3-dimensional input (batch, seq, feature) only, the feature
\* dimension being input_size and the sequence not empty.  The length of the
\* sequence is not compared with anything.
ForwardRaises(shape) ==
    ~(Len(shape) = 3 /\ shape[3] = InputSize /\ shape[2] >= 1)

RECURSIVE Exp2(_)
Exp2(x) == IF x = 0 THEN 1 ELSE 2 * Exp2(x - 1)

RECURSIVE SeqSum(_)
SeqSum(s) == IF s = <<>> THEN 0 ELSE s[1] + SeqSum(Tail(s))

\* torch.softmax(output, dim=1), in thousandths rounded down.  The exponential
\* is taken to base 2: what the model keeps of it is that it is positive and
\* strictly increasing.
softmax(logits) ==
    LET e == [i \in 1..Len(logits) |-> Exp2(logits[i])]
    IN  [i \in 1..Len(logits) |-> (e[i] * 1000) \div SeqSum(e)]

\* The indices (0-based, as bins) output.argmax(dim=1) can return: one of a
\* maximal logit (which one, among equals, torch does not promise).
ArgMax(logits) ==
    {b \in 0..(Len(logits) - 1) : \A j \in 1..Len(logits) : logits[b + 1] >= logits[j]}

\* The smallest probability instead of the largest.
ProbMin(probabilities) == SeqMin(probabilities)

\* probabilities.max()
ProbMax(probabilities) == SeqMax(probabilities)

\* magnitude_ranges, in whole magnitudes as in the code; entry b + 1 is bin b.
magnitude_ranges == <<(<<0, 4>>), (<<4, 5>>), (<<5, 6>>), (<<6, 7>>), (<<7, 10>>)>>

\* risk_levels; entry b + 1 is bin b.
risk_levels == <<"low", "low", "medium", "high", "extreme">>

\* Lines 202-225: the report of predicted bin b with the given probabilities.
\* expectedMagnitude is in tenths.
Report(b, probabilities) ==
    LET mag_range == magnitude_ranges[b + 1]
    IN  [magnitudeBin |-> b,
         confidence |-> ProbMax(probabilities),
         probabilityDistribution |-> probabilities,
         expectedMagnitude |-> ((mag_range[1] + mag_range[2]) * 10) \div 2,
         riskLevel |-> risk_levels[b + 1],
         magnitudeRange |-> mag_range]

ErrorResult(msg) == [kind |-> "result", result |-> [error |-> msg]]

\* An exception that nothing catches: the process dies with a traceback and
\* prints no result.
Fault(exc) == [kind |-> "fault", exception |-> exc]

\* predict_magnitude's failures, in the order the code meets them: the load of
\* the checkpoint (line 190), the conversion to a tensor (line 194), the
\* forward pass (line 197).  "" when none.
PredictFailure(ckpt, value) ==
    IF ckpt.state = "missing" THEN "FileNotFoundError"
    ELSE IF ckpt.state = "corrupt" THEN "UnpicklingError"
    ELSE IF value.kind = "text" THEN "TypeError"
    ELSE IF ForwardRaises(InputShape(value)) THEN "RuntimeError"
    ELSE ""

(***************************************************************************)
(* train_model's loop                                                      *)
(***************************************************************************)
\* while recall < 0.95 and epoch < 100
RecallTarget == 95
EpochCap == 100

\* recall <= 0.95 instead of recall < 0.95.
LoopCondInclusive(r, e) == r <= RecallTarget /\ e < EpochCap

LoopCond(r, e) == r < RecallTarget /\ e < EpochCap

\* int(len(X) * 0.8)
SplitIdx(n) == (n * 8) \div 10

\* The validation recalls an epoch can end with, in hundredths.
RecallLevels == {0, 50, 94, 95, 100}

\* What load_earthquake_data can come to: None when its try body raises, else
\* the readings with magnitude > 0 among 10000 draws of np.random.normal, which
\* can be any number of them, none included.  The model tries n readings in
\* time order, their magnitudes cycling through the five bins from some offset.
MagCycle == <<35, 45, 55, 65, 75>>
SourceFrame(n, off) ==
    [i \in 1..n |-> [time |-> i, magnitude |-> MagCycle[((i + off) % 5) + 1]]]

Sources ==
    {[is |-> "None"]}
    \cup {[is |-> "frame", rows |-> SourceFrame(n, off)] : n \in 0..MaxReadings, off \in 0..4}

\* The checkpoint as a new invocation finds it: what an earlier run wrote is
\* from then on a file left over ("prev"); the file itself is not touched.
Aged(ckpt) ==
    IF ckpt.state = "valid" THEN [state |-> "valid", run |-> "prev", epoch |-> 0] ELSE ckpt

LocalsReset ==
    /\ epoch' = 0 /\ recall' = 0 /\ best_recall' = 0
    /\ runMax' = -1 /\ runBestEpoch' = 0 /\ firstHit' = 0

Init ==
    /\ pc = "idle"
    /\ argv = <<>>
    /\ out = [kind |-> "none"]
    /\ checkpoint \in {[state |-> "missing"], [state |-> "corrupt"],
                       [state |-> "valid", run |-> "prev", epoch |-> 0]}
    /\ loaded = "unloaded"
    /\ epoch = 0 /\ recall = 0 /\ best_recall = 0
    /\ runMax = -1 /\ runBestEpoch = 0 /\ firstHit = 0
    /\ PrepIdle
    /\ WeightsIdle

\* python enhanced_lstm.py : "No command provided" (line 250).
NoCommand ==
    /\ pc = "idle"
    /\ argv' = <<>>
    /\ out' = ErrorResult("No command provided")
    /\ checkpoint' = Aged(checkpoint)
    /\ loaded' = "unloaded"
    /\ LocalsReset
    /\ UNCHANGED <<pc, prepVars, weightVars>>

\* python enhanced_lstm.py <anything else> : "Unknown command" (line 248).
UnknownCommand ==
    /\ pc = "idle"
    /\ argv' = <<"other">>
    /\ out' = ErrorResult("Unknown command")
    /\ checkpoint' = Aged(checkpoint)
    /\ loaded' = "unloaded"
    /\ LocalsReset
    /\ UNCHANGED <<pc, prepVars, weightVars>>

\* The outcome of lines 96-128 on what the data source gave: None for a
\* source that raised, else the frame.  Either the result train_model returns
\* at line 99, or the exception that leaves it, or "loop".
\*   line 102  prepare_sequences raises on a frame without readings;
\*   line 113  DataLoader(shuffle=True) builds a RandomSampler, which refuses a
\*             dataset of no sample (ValueError); were it to accept one,
\*             np.bincount of the empty float array y_train raises at line 120;
\*   line 123  the product of class_counts and the 5 factors (ClassWeights).
TrainSetup(source) ==
    IF source.is = "None" THEN ErrorResult("Failed to load data")
    ELSE LET p == prepare_sequences(source.rows, SeqLength)
         IN  IF p.raised # "" THEN Fault(p.raised)
             ELSE LET split_idx == SplitIdx(Len(p.X))
                      labels_train == SubSeq(p.y, 1, split_idx)
                  IN  IF split_idx = 0 THEN Fault("ValueError")
                      ELSE IF ClassWeights(labels_train).raised # ""
                           THEN Fault(ClassWeights(labels_train).raised)
                           ELSE [kind |-> "loop"]

LoadedAs(source) ==
    IF source.is = "None" THEN "failed"
    ELSE IF Len(source.rows) = 0 THEN "empty"
    ELSE IF Len(source.rows) <= SeqLength THEN "short"
    ELSE "ok"

\* python enhanced_lstm.py train, up to the while of line 136.
TrainStart ==
    /\ pc = "idle"
    /\ \E source \in Sources :
          LET setup == TrainSetup(source)
          IN  /\ loaded' = LoadedAs(source)
              /\ IF setup.kind = "loop"
                 THEN pc' = "loop" /\ out' = [kind |-> "none"]
                 ELSE pc' = "idle" /\ out' = setup
    /\ argv' = <<"train">>
    /\ checkpoint' = Aged(checkpoint)
    /\ LocalsReset
    /\ UNCHANGED <<prepVars, weightVars>>

\* One pass of the while body, lines 137-173, ending with validation recall r.
\* The parameters saved at line 167 are those after epoch + 1 passes.
TrainEpoch ==
    /\ pc = "loop"
    /\ LoopCond(recall, epoch)
    /\ \E r \in RecallLevels :
          /\ recall' = r
          /\ IF r > best_recall
             THEN /\ best_recall' = r
                  /\ checkpoint' = [state |-> "valid", run |-> "cur", epoch |-> epoch + 1]
             ELSE UNCHANGED <<best_recall, checkpoint>>
          /\ runMax' = Max2(runMax, r)
          /\ runBestEpoch' = IF r > runMax THEN epoch + 1 ELSE runBestEpoch
          /\ firstHit' = IF firstHit = 0 /\ r >= RecallTarget THEN epoch + 1 ELSE firstHit
    /\ epoch' = epoch + 1
    /\ UNCHANGED <<pc, argv, out, loaded, prepVars, weightVars>>

\* The while ends: lines 175-184 and the print of line 236.  Of final_metrics
\* the model keeps the recall.
TrainReturn ==
    /\ pc = "loop"
    /\ ~LoopCond(recall, epoch)
    /\ pc' = "idle"
    /\ out' = [kind |-> "result",
               result |-> [training_completed |-> TRUE,
                           final_epoch |-> epoch,
                           final_metrics |-> [recall |-> recall]]]
    /\ UNCHANGED <<argv, checkpoint, loaded, epoch, recall, best_recall,
                   runMax, runBestEpoch, firstHit, prepVars, weightVars>>

\* The JSON values tried as predict's argument: a string, a list of numbers,
\* a list of rows of numbers (one row, and the lengths around seq_length).
WindowValues ==
    {[kind |-> "text"]}
    \cup {[kind |-> "flat", len |-> n] : n \in 0..MaxWindow}
    \cup {[kind |-> "nested", len |-> n, width |-> w] :
             n \in {1} \cup (SeqLength - 1)..MaxWindow, w \in 1..2}

\* The logits a forward pass can give for one bin.
LogitLevels == {0, 1}

PredictArgs ==
    {<<"predict">>, <<"predict", [json |-> "malformed"]>>}
    \cup {<<"predict", [json |-> "ok", value |-> v]>> : v \in WindowValues}

\* python enhanced_lstm.py predict [arg], lines 238-245 with predict_magnitude.
\* sys.argv[2] of a missing argument and json.loads of a malformed one raise
\* inside the try of line 240.
Predict ==
    /\ pc = "idle"
    /\ \E a \in PredictArgs :
          /\ argv' = a
          /\ IF Len(a) < 2 THEN out' = ErrorResult("IndexError")
             ELSE IF a[2].json = "malformed" THEN out' = ErrorResult("JSONDecodeError")
             ELSE IF PredictFailure(checkpoint, a[2].value) # ""
                  THEN out' = ErrorResult(PredictFailure(checkpoint, a[2].value))
                  ELSE \E logits \in [1..5 -> LogitLevels] :
                         \E predicted_bin \in ArgMax(logits) :
                            out' = [kind |-> "result",
                                    result |-> Report(predicted_bin, softmax(logits))]
    /\ checkpoint' = Aged(checkpoint)
    /\ loaded' = "unloaded"
    /\ LocalsReset
    /\ UNCHANGED <<pc, prepVars, weightVars>>

Next ==
    \/ NoCommand
    \/ UnknownCommand
    \/ TrainStart
    \/ TrainEpoch
    \/ TrainReturn
    \/ Predict

Spec == Init /\ [][Next]_vars

\* The interpreter runs the loop on: an enabled pass or return is taken.
FairSpec == Spec /\ WF_vars(TrainEpoch) /\ WF_vars(TrainReturn)
(***************************************************************************)
(* Properties                                                              *)
(***************************************************************************)
\* A train invocation has returned from train_model's loop.
TrainDone ==
    /\ pc = "idle"
    /\ argv = <<"train">>
    /\ out.kind = "result"
    /\ "final_epoch" \in DOMAIN out.result

\* A predict invocation has printed its result.
PredictDone ==
    /\ pc = "idle"
    /\ Len(argv) >= 1
    /\ argv[1] = "predict"
    /\ out.kind = "result"

\* C1, safety part: inside the loop the epoch count never passes the cap nor
\* the first epoch whose recall reached 0.95 (no further epoch is run); a
\* returned train reports final_epoch = the first such epoch when there is one
\* below 100, and exactly 100 otherwise; so between 1 and 100 epochs are run.
C1_StopsAtFirstHitOrCap ==
    /\ pc = "loop" =>
          /\ epoch \in 0..EpochCap
          /\ firstHit # 0 => epoch = firstHit
    /\ TrainDone =>
          LET final_epoch == out.result.final_epoch
          IN  /\ final_epoch \in 1..100
              /\ final_epoch = epoch
              /\ firstHit \in 1..99 => final_epoch = firstHit
              /\ firstHit \notin 1..99 => final_epoch = 100

\* C1: train_model's loop stops at the first epoch k < 100 whose validation
\* recall is >= 0.95 and at exactly epoch 100 when none is, and a loop that was
\* entered always ends.
C1_TrainerTermination ==
    /\ []C1_StopsAtFirstHitOrCap
    /\ (pc = "loop") ~> (pc = "idle")

\* C1's case: a run whose recall never reached 0.95 has returned at epoch 100.
C1_Witness ==
    /\ TrainDone
    /\ firstHit = 0
    /\ out.result.final_epoch = 100
    /\ out.result.final_metrics.recall = 94

\* C2 as claimed: a pass of the loop writes the checkpoint if and only if its
\* recall is strictly higher than the recall of every earlier pass of the run,
\* the first pass (no earlier pass: runMax = -1) included.
C2_WrittenIffStrictlyBest ==
    [][(pc = "loop" /\ pc' = "loop" /\ epoch' = epoch + 1)
          => ((checkpoint' # checkpoint) <=> (recall' > runMax))]_vars

\* The bin the claim gives magnitude m (tenths): lower edges inclusive.
ClaimedBin(m) ==
    IF m < 40 THEN 0 ELSE IF m < 50 THEN 1 ELSE IF m < 60 THEN 2 ELSE IF m < 70 THEN 3 ELSE 4

\* C3 as claimed: every magnitude m > 0 is labelled with exactly one bin of
\* 0..4, monotonically, [0,4) -> 0, [4,5) -> 1, [5,6) -> 2, [6,7) -> 3,
\* [7,inf) -> 4.
C3_BinsLowerInclusive ==
    prep.raised = "" =>
        \A i \in 1..Len(prep.codes) :
            /\ prep.codes[i] \in 0..4
            /\ prep.codes[i] = ClaimedBin(prep.sorted[i].magnitude)
            /\ \A j \in 1..Len(prep.codes) :
                  prep.sorted[i].magnitude <= prep.sorted[j].magnitude
                      => prep.codes[i] <= prep.codes[j]

\* C4 as claimed: for N readings and window length L the call produces
\* exactly max(N - L, 0) pairs, window i being the scaled magnitudes of the
\* time-sorted positions i..i+L-1 and label i the bin of position i+L.
C4_WindowsAndLabels ==
    prep.raised # "pending" =>
        /\ prep.raised = ""
        /\ Len(prep.X) = Max2(Len(df) - seq_length, 0)
        /\ Len(prep.y) = Len(prep.X)
        /\ \A i \in 1..Len(prep.X) :
              /\ Len(prep.X[i]) = seq_length
              /\ \A k \in 1..seq_length :
                    prep.X[i][k] =
                        fit_transform([j \in 1..Len(df) |-> prep.sorted[j].magnitude])[i + k - 1]
              /\ prep.y[i] = prep.codes[i + seq_length]

\* The occurrences of label b in y.
Occurrences(y, b) == Cardinality({i \in 1..Len(y) : y[i] = b})

\* The weights are computed and every one of the 5 bins occurs in y_train.
AllBinsWeighted ==
    /\ class_weights.raised # "pending"
    /\ \A b \in 0..4 : Occurrences(y_train, b) >= 1

\* The entries are the five raw weights, each divided by the sum of the five.
SumsToOne(w) ==
    /\ Len(w) = 5
    /\ \A i \in 1..5 : w[i].whole = [j \in 1..5 |-> w[j].part]

\* C5 as claimed: with every bin present, the weight vector has 5 entries that
\* sum to 1 and the weight of bin 4 is strictly greater than that of bin 0.
C5_Bin4AboveBin0 ==
    AllBinsWeighted =>
        /\ class_weights.raised = ""
        /\ SumsToOne(class_weights.weights)
        /\ WeightLess(class_weights.weights[1], class_weights.weights[5])

\* C5 as amended: with every bin present, the weight vector has 5 entries that
\* sum to 1, and the weight of bin 4 is strictly greater than that of bin 0
\* whenever bin 4 occurs fewer than 3 times as often as bin 0.
C5_Bin4AboveBin0UnlessFrequent ==
    AllBinsWeighted =>
        /\ class_weights.raised = ""
        /\ SumsToOne(class_weights.weights)
        /\ Occurrences(y_train, 4) < 3 * Occurrences(y_train, 0)
              => WeightLess(class_weights.weights[1], class_weights.weights[5])

\* C5's case: bin 4 is more frequent than bin 0 but less than 3 times as much,
\* and the weights are computed.
C5_Witness ==
    /\ AllBinsWeighted
    /\ Occurrences(y_train, 0) = 2
    /\ Occurrences(y_train, 4) = 4
    /\ WeightLess(class_weights.weights[1], class_weights.weights[5])

\* C6 as claimed: predict with a window (a list of numbers, or of rows of one
\* number) whose length is not 10, with a valid checkpoint, ends in {error}.
C6_WrongLengthIsError ==
    (/\ PredictDone
     /\ checkpoint.state = "valid"
     /\ Len(argv) = 2
     /\ argv[2].json = "ok"
     /\ \/ argv[2].value.kind = "flat"
        \/ argv[2].value.kind = "nested" /\ argv[2].value.width = 1
     /\ argv[2].value.len # 10)
        => DOMAIN out.result = {"error"}

\* C7 as claimed: every invocation that has ended has printed one structured
\* result; none has ended in an exception that nothing caught.
C7_AlwaysStructuredResult ==
    (pc = "idle" /\ out.kind # "none") => out.kind = "result"

\* The risk level and range the claim gives bin b.
ClaimedRisk(b) ==
    CASE b \in {0, 1} -> "low" [] b = 2 -> "medium" [] b = 3 -> "high" [] b = 4 -> "extreme"
ClaimedRange(b) ==
    CASE b = 0 -> <<0, 4>> [] b = 1 -> <<4, 5>> [] b = 2 -> <<5, 6>>
      [] b = 3 -> <<6, 7>> [] b = 4 -> <<7, 10>>

\* C8: a predict result is either {error} alone, and is so whenever the
\* checkpoint cannot be loaded or the argument is missing or malformed, or a
\* report whose bin b has the maximum
\* probability, whose confidence is the probability of b, whose riskLevel and
\* magnitudeRange are those of b and whose expectedMagnitude (tenths) is the
\* midpoint of that range.
C8_ReportConsistent ==
    PredictDone =>
        LET r == out.result
        IN  /\ checkpoint.state # "valid" => "error" \in DOMAIN r
            /\ Len(argv) < 2 => "error" \in DOMAIN r
            /\ (Len(argv) = 2 /\ argv[2].json = "malformed") => "error" \in DOMAIN r
            /\ IF "error" \in DOMAIN r
               THEN DOMAIN r = {"error"}
               ELSE /\ DOMAIN r = {"magnitudeBin", "confidence", "probabilityDistribution",
                                   "expectedMagnitude", "riskLevel", "magnitudeRange"}
                    /\ r.magnitudeBin \in 0..4
                    /\ Len(r.probabilityDistribution) = 5
                    /\ \A j \in 1..5 : r.probabilityDistribution[r.magnitudeBin + 1]
                                          >= r.probabilityDistribution[j]
                    /\ r.confidence = r.probabilityDistribution[r.magnitudeBin + 1]
                    /\ r.riskLevel = ClaimedRisk(r.magnitudeBin)
                    /\ r.magnitudeRange = ClaimedRange(r.magnitudeBin)
                    /\ 2 * r.expectedMagnitude
                          = 10 * (ClaimedRange(r.magnitudeBin)[1] + ClaimedRange(r.magnitudeBin)[2])

\* C8's case: a report for bin 4 whose probabilities are not all equal.
C8_Witness ==
    /\ PredictDone
    /\ "riskLevel" \in DOMAIN out.result
    /\ out.result.magnitudeBin = 4
    /\ out.result.riskLevel = "extreme"
    /\ out.result.probabilityDistribution[1] < out.result.confidence

\* C9 as claimed: when train has returned success, the checkpoint holds the
\* parameters of the epoch of this run that reached the run's best recall.
C9_CheckpointIsBestOfRun ==
    (TrainDone /\ out.result.training_completed)
        => checkpoint = [state |-> "valid", run |-> "cur", epoch |-> runBestEpoch]

\* C10 as claimed: a train whose data source failed or returned no reading
\* ends in {error}, has run no epoch and has not written the checkpoint.
C10_NoDataIsError ==
    (pc = "idle" /\ argv = <<"train">> /\ loaded \in {"failed", "empty"})
        => /\ out.kind = "result"
           /\ DOMAIN out.result = {"error"}
           /\ epoch = 0
           /\ checkpoint.state = "valid" => checkpoint.run = "prev"
====
